---- MODULE Spec2Model ----
(***************************************************************************)
(* Cornucopia: the CLI driver (src/cli.rs) and the code emitter            *)
(* (src/codegen.rs), with the run-time behaviour of the PostgreSQL binary   *)
(* codecs the emitter generates for domains and composites.                 *)
(*                                                                         *)
(* Three specifications share the variables:                               *)
(*   SpecCli    one invocation of run(), call by call;                     *)
(*   SpecGen    generate() applied to a registrar and a prepared module;    *)
(*   SpecCodec  the generated ToSql / FromSql implementations at run time.  *)
(***************************************************************************)
EXTENDS Integers, Sequences, FiniteSets, TLC

VARIABLES
    \* ---- run() (src/cli.rs)
    cliPc,      \* position of run(): "parse", a call site, or "returned"
    cliArgs,    \* the parsed command line
    cliCalls,   \* the calls run() has made so far, in order, with their results
    cliErr,     \* the error bound to `e` at cli.rs:103 (NoErr when none)
    cliRet,     \* what run() returned (meaningful at "returned")
    \* ---- generate() (src/codegen.rs)
    registrar,  \* TypeRegistrar.custom_types, in insertion order
    modules,    \* the Vec<PreparedModule> handed to generate()
    isAsync,    \* the is_async flag
    outputs,    \* the text emitted by each run of generate() so far
    \* ---- generated codecs at run time
    cPc,        \* "idle", "encoded", "decoded"
    cVal,       \* the value handed to to_sql_checked
    cRty,       \* the Rust type of that value
    cTy,        \* the run-time postgres type the driver passes
    cBuf,       \* the bytes written by the encoder
    cRes,       \* the encoder's result
    cAccepts,   \* what ToSql::accepts answered for (cRty, cTy)
    cCalls,     \* every to_sql invocation of the last encode: <<rust type, pg type>>
    dRty,       \* the Rust type decoded into
    dTy,        \* the run-time postgres type of the column decoded
    dAccepts,   \* what FromSql::accepts answered for (dRty, dTy)
    dRes,       \* the decoder's result
    \* ---- generated query code at run time
    qSpecs,     \* the query file the module was prepared from (the database's view)
    qBld,       \* the {Row}Query builder in hand (None when there is none)
    qBuilt,     \* that builder as the query function returned it
    qMaps,      \* the mappers given to map() since then, in order
    qLog,       \* the calls made on the client so far, in order
    qRes,       \* the result of the last call
    qCalls      \* how many calls of generated code were made

cliVars == <<cliPc, cliArgs, cliCalls, cliErr, cliRet>>
genVars == <<registrar, modules, isAsync, outputs>>
codecVars ==
    <<cPc, cVal, cRty, cTy, cBuf, cRes, cAccepts, cCalls, dRty, dTy,
               dAccepts, dRes>>
queryVars == <<qSpecs, qBld, qBuilt, qMaps, qLog, qRes, qCalls>>
vars == <<cliVars, genVars, codecVars, queryVars>>

None == [tag |-> "None"]

(***************************************************************************)
(* Part 1.  run()                                                          *)
(***************************************************************************)

NoErr == [kind |-> "none", origin |-> "none"]

Ok == [ok |-> TRUE, err |-> NoErr]

Err(e) == [ok |-> FALSE, err |-> e]

\* Error, src/error.rs: the variants a callee of run() can produce.
ErrorKinds ==
    [ new_migration    |-> {"NewMigration"},
      from_url         |-> {"PoolCreation", "Pool"},
      run_migrations   |-> {"Migration"},
      generate_live    |-> {"ReadQueries", "PrepareQueries", "Codegen", "FmtError"},
      cornucopia_conn  |-> {"PoolCreation", "Pool"},
      generate_managed |-> {"ReadQueries", "ContainerError", "Migration",
                            "PrepareQueries", "Codegen", "FmtError"},
      cleanup          |-> {"ContainerError"} ]

\* What a call of `callee` can return: Ok(..) or Err of one of its kinds.
Results(callee) ==
    {Ok} \cup {Err([kind |-> k, origin |-> callee]) : k \in ErrorKinds[callee]}

\* Args / Action, src/cli.rs: the commands clap can parse.
Commands == {"migrations_new", "migrations_run", "generate_live", "generate_managed"}

ArgsSet == [action : Commands, podman : BOOLEAN, sync : BOOLEAN]

CliIdle ==
    /\ cliPc = "off"
    /\ cliArgs = None
    /\ cliCalls = <<>>
    /\ cliErr = NoErr
    /\ cliRet = None

CliInit ==
    /\ cliPc = "parse"
    /\ cliArgs = None
    /\ cliCalls = <<>>
    /\ cliErr = NoErr
    /\ cliRet = None

\* cli.rs:73-75: Args::parse() and the match on args.action.
Parse ==
    /\ cliPc = "parse"
    /\ \E a \in ArgsSet :
        /\ cliArgs' = a
        /\ cliPc' = CASE a.action = "migrations_new"   -> "new_migration"
                      [] a.action = "migrations_run"   -> "from_url"
                      [] a.action = "generate_live"    -> "from_url"
                      [] a.action = "generate_managed" -> "cornucopia_conn"
    /\ UNCHANGED <<cliCalls, cliErr, cliRet, genVars, codecVars, queryVars>>

\* A call whose result run() returns as it is (no `?`, tail position).
TailCall(callee) ==
    /\ cliPc = callee
    /\ \E r \in Results(callee) :
        /\ cliCalls' = Append(cliCalls, [fn |-> callee, arg |-> None, res |-> r])
        /\ cliRet' = r
        /\ cliPc' = "returned"
    /\ UNCHANGED <<cliArgs, cliErr, genVars, codecVars, queryVars>>

\* A call followed by `?`: an Err returns from run(), an Ok goes on to `next`.
TryCall(callee, arg, next) ==
    /\ cliPc = callee
    /\ \E r \in Results(callee) :
        /\ cliCalls' = Append(cliCalls, [fn |-> callee, arg |-> arg, res |-> r])
        /\ IF r.ok
             THEN /\ cliPc' = next
                  /\ cliRet' = cliRet
             ELSE /\ cliPc' = "returned"
                  /\ cliRet' = r
    /\ UNCHANGED <<cliArgs, cliErr, genVars, codecVars, queryVars>>

\* cli.rs:80
NewMigration == TailCall("new_migration")

\* cli.rs:82 and cli.rs:96
FromUrl ==
    TryCall("from_url", None,
            IF cliArgs.action = "migrations_run" THEN "run_migrations" ELSE "generate_live")

\* cli.rs:83
RunMigrations == TailCall("run_migrations")

\* cli.rs:97
GenerateLive == TryCall("generate_live", [is_async |-> ~cliArgs.sync], "ok")

\* cli.rs:100
CornucopiaConn == TryCall("cornucopia_conn", None, "generate_managed")

\* A driver that propagates the error of generate_managed without any teardown.
MutGenerateManaged ==
    /\ cliPc = "generate_managed"
    /\ \E r \in Results("generate_managed") :
        /\ cliCalls' = Append(cliCalls,
               [fn |-> "generate_managed",
                arg |-> [podman |-> cliArgs.podman, is_async |-> ~cliArgs.sync],
                res |-> r])
        /\ IF r.ok
             THEN /\ cliPc' = "ok"
                  /\ cliRet' = cliRet
             ELSE /\ cliPc' = "returned"
                  /\ cliRet' = r
    /\ UNCHANGED <<cliArgs, cliErr, genVars, codecVars, queryVars>>

\* cli.rs:103-110: `if let Err(e) = generate_managed(..)`.
GenerateManaged ==
    /\ cliPc = "generate_managed"
    /\ \E r \in Results("generate_managed") :
        /\ cliCalls' = Append(cliCalls,
               [fn |-> "generate_managed",
                arg |-> [podman |-> cliArgs.podman, is_async |-> ~cliArgs.sync],
                res |-> r])
        /\ IF r.ok
             THEN /\ cliPc' = "ok"
                  /\ cliErr' = cliErr
             ELSE /\ cliPc' = "cleanup"
                  /\ cliErr' = r.err
    /\ UNCHANGED <<cliArgs, cliRet, genVars, codecVars, queryVars>>

\* What run() returns after container::cleanup(podman) has answered r with the
\* primary error e pending: cli.rs:111 is `container::cleanup(podman)?;`, so an Err
\* of cleanup returns at once; cli.rs:112 returns Err(e) otherwise.
AfterCleanup(r, e) == IF r.ok THEN Err(e) ELSE r

\* cli.rs:111-112
Cleanup ==
    /\ cliPc = "cleanup"
    /\ \E r \in Results("cleanup") :
        /\ cliCalls' = Append(cliCalls,
               [fn |-> "cleanup", arg |-> [podman |-> cliArgs.podman], res |-> r])
        /\ cliRet' = AfterCleanup(r, cliErr)
        /\ cliPc' = "returned"
    /\ UNCHANGED <<cliArgs, cliErr, genVars, codecVars, queryVars>>

\* cli.rs:117
ReturnOk ==
    /\ cliPc = "ok"
    /\ cliRet' = Ok
    /\ cliPc' = "returned"
    /\ UNCHANGED <<cliArgs, cliCalls, cliErr, genVars, codecVars, queryVars>>

(***************************************************************************)
(* Part 2.  Bytes.                                                         *)
(*                                                                         *)
(* A buffer (BytesMut, &[u8]) is a sequence of runs [b |-> byte, n |->     *)
(* count], adjacent runs of one byte merged, so that a value of more than   *)
(* i32::MAX bytes can be written down.  Lengths and offsets are usize: they *)
(* are kept as two limbs [hi, lo] of 16 bits, since a buffer can be longer  *)
(* than the largest integer TLC computes with.                             *)
(***************************************************************************)

\* i32::max_value(), codegen.rs:225
I32Max == 2147483647

WideBase == 256 * 256

W(n) == [hi |-> n \div WideBase, lo |-> n % WideBase]

WAdd(a, b) ==
    LET lo == a.lo + b.lo
    IN  [hi |-> a.hi + b.hi + (lo \div WideBase), lo |-> lo % WideBase]

WLe(a, b) == a.hi < b.hi \/ (a.hi = b.hi /\ a.lo <= b.lo)

\* a - b, for b <= a
WSub(a, b) ==
    IF a.lo >= b.lo
      THEN [hi |-> a.hi - b.hi, lo |-> a.lo - b.lo]
      ELSE [hi |-> a.hi - b.hi - 1, lo |-> (a.lo + WideBase) - b.lo]

\* the number a, for a <= i32::MAX
WNat(a) == a.hi * WideBase + a.lo

Run(b, n) == [b |-> b, n |-> n]

\* extend_from_slice: x followed by y
Cat(x, y) ==
    IF x = <<>> THEN y
    ELSE IF y = <<>> THEN x
    ELSE LET l == x[Len(x)]
             h == y[1]
         IN  IF l.b = h.b /\ l.n <= I32Max - h.n
               THEN SubSeq(x, 1, Len(x) - 1) \o <<Run(l.b, l.n + h.n)>> \o Tail(y)
               ELSE x \o y

RECURSIVE FromBytes(_)
FromBytes(bs) ==
    IF bs = <<>> THEN <<>> ELSE Cat(<<Run(Head(bs), 1)>>, FromBytes(Tail(bs)))

\* the bytes of a short buffer, one by one
RECURSIVE Expand(_)
Expand(x) ==
    IF x = <<>> THEN <<>>
    ELSE [i \in 1..Head(x).n |-> Head(x).b] \o Expand(Tail(x))

\* buf.len()
RECURSIVE ByteLen(_)
ByteLen(x) == IF x = <<>> THEN W(0) ELSE WAdd(W(Head(x).n), ByteLen(Tail(x)))

\* &x[..w]
RECURSIVE TakeW(_, _)
TakeW(x, w) ==
    IF x = <<>> \/ w = W(0) THEN <<>>
    ELSE LET r == Head(x)
         IN  IF WLe(W(r.n), w)
               THEN Cat(<<r>>, TakeW(Tail(x), WSub(w, W(r.n))))
               ELSE <<Run(r.b, WNat(w))>>

\* &x[w..]
RECURSIVE DropW(_, _)
DropW(x, w) ==
    IF x = <<>> \/ w = W(0) THEN x
    ELSE LET r == Head(x)
         IN  IF WLe(W(r.n), w)
               THEN DropW(Tail(x), WSub(w, W(r.n)))
               ELSE <<Run(r.b, r.n - WNat(w))>> \o Tail(x)

\* i32::to_be_bytes (two's complement, 32 bits)
I32ToBe(v) ==
    LET u == IF v >= 0 THEN v ELSE (v + I32Max) + 1
        top == (u \div 16777216) + (IF v >= 0 THEN 0 ELSE 128)
    IN  FromBytes(<<top, (u \div 65536) % 256, (u \div 256) % 256, u % 256>>)

\* i32::from_be_bytes of four bytes
I32FromBe(x) ==
    LET bs == Expand(x)
        u == (((bs[1] % 128) * 256 + bs[2]) * 256 + bs[3]) * 256 + bs[4]
    IN  IF bs[1] < 128 THEN u ELSE (u - I32Max) - 1

\* postgres_types::private::read_be_i32 (codegen.rs:107, 276, 294): four bytes off
\* the front of the buffer, or "invalid buffer size".
read_be_i32(buf) ==
    IF ~WLe(W(4), ByteLen(buf))
      THEN [ok |-> FALSE, err |-> "invalid buffer size", val |-> 0, rest |-> buf]
      ELSE [ok |-> TRUE, err |-> "", val |-> I32FromBe(TakeW(buf, W(4))),
            rest |-> DropW(buf, W(4))]

\* std::str::from_utf8 on the bytes this model uses: ASCII is valid, a byte of
\* 0x80 or more standing alone is not.
Utf8Valid(x) == \A i \in 1..Len(x) : x[i].b < 128

(***************************************************************************)
(* Part 3.  PostgreSQL types and the type registrar.                       *)
(***************************************************************************)

\* postgres_types::Field
Field(name, ty) == [name |-> name, ty |-> ty]

\* postgres_types::Type: name, schema, oid and kind, with the kind's payload
\* (Domain: inner; Composite: fields; Enum: variants).  A type is referred to by
\* its key in PgType.
Ty(name, schema, oid, kind, inner, fields, variants) ==
    [name |-> name, schema |-> schema, oid |-> oid, kind |-> kind,
     inner |-> inner, fields |-> fields, variants |-> variants]

\* The types a database can present.  The first block is the schema the code was
\* generated against; the second block is what a database can hold under the same
\* names at run time (another schema, a changed definition).
PgType(id) ==
    CASE id = "int4"  -> Ty("int4", "pg_catalog", 23, "Simple", "", <<>>, <<>>)
      [] id = "text"  -> Ty("text", "pg_catalog", 25, "Simple", "", <<>>, <<>>)
      [] id = "bytea" -> Ty("bytea", "pg_catalog", 17, "Simple", "", <<>>, <<>>)
      [] id = "addr"  -> Ty("addr", "public", 16401, "Composite", "",
                            <<Field("street", "text"), Field("zip", "int4")>>, <<>>)
      [] id = "hash"  -> Ty("hash", "public", 16402, "Domain", "bytea", <<>>, <<>>)
      [] id = "acct"  -> Ty("acct", "public", 16403, "Composite", "",
                            <<Field("h", "hash"), Field("home", "addr")>>, <<>>)
      [] id = "mood"  -> Ty("mood", "audit", 16404, "Enum", "", <<>>,
                            <<"sad", "ok", "happy">>)
      [] id = "pt"    -> Ty("pt", "audit", 16405, "Composite", "",
                            <<Field("x", "int4"), Field("y", "int4")>>, <<>>)
      \* ---- run time only
      [] id = "addr_perm"  -> Ty("addr", "public", 16501, "Composite", "",
                            <<Field("zip", "int4"), Field("street", "text")>>, <<>>)
      [] id = "addr_audit" -> Ty("addr", "audit", 16502, "Composite", "",
                            <<Field("street", "text"), Field("zip", "int4")>>, <<>>)
      [] id = "addr_short" -> Ty("addr", "public", 16503, "Composite", "",
                            <<Field("street", "text")>>, <<>>)
      [] id = "addr_city"  -> Ty("addr", "public", 16504, "Composite", "",
                            <<Field("street", "text"), Field("city", "text")>>, <<>>)
      [] id = "addr_int"   -> Ty("addr", "public", 16505, "Composite", "",
                            <<Field("street", "int4"), Field("zip", "int4")>>, <<>>)
      [] id = "addr_dom"   -> Ty("addr", "public", 16506, "Domain", "text", <<>>, <<>>)
      [] id = "place"      -> Ty("place", "public", 16507, "Composite", "",
                            <<Field("street", "text"), Field("zip", "int4")>>, <<>>)
      [] id = "hash_audit" -> Ty("hash", "audit", 16508, "Domain", "bytea", <<>>, <<>>)
      [] id = "hash_text"  -> Ty("hash", "public", 16509, "Domain", "text", <<>>, <<>>)
      [] id = "hash_comp"  -> Ty("hash", "public", 16510, "Composite", "",
                            <<Field("street", "text"), Field("zip", "int4")>>, <<>>)
      [] id = "acct_perm"  -> Ty("acct", "public", 16511, "Composite", "",
                            <<Field("home", "addr_perm"), Field("h", "hash")>>, <<>>)

BuiltinIds == {"int4", "text", "bytea"}

CustomIds == {"addr", "hash", "acct", "mood", "pt"}

RuntimeIds ==
    BuiltinIds \cup {"addr", "hash", "acct"} \cup
    {"addr_perm", "addr_audit", "addr_short", "addr_city", "addr_int", "addr_dom",
     "place", "hash_audit", "hash_text", "hash_comp", "acct_perm"}

\* CornucopiaType (type_registrar.rs): the descriptor the emitter reads.
Descr(pg_ty, rust_ty_name, is_copy, is_params) ==
    [pg_ty |-> pg_ty, rust_ty_name |-> rust_ty_name,
     is_copy |-> is_copy, is_params |-> is_params]

\* The descriptor of a built-in type.
BuiltinDescr(id) ==
    CASE id = "int4"  -> Descr("int4", "i32", TRUE, TRUE)
      [] id = "text"  -> Descr("text", "String", FALSE, TRUE)
      [] id = "bytea" -> Descr("bytea", "Vec<u8>", FALSE, TRUE)

\* Upper camel case of the type name.
RustTyName(id) ==
    CASE id = "addr" -> "Addr"
      [] id = "hash" -> "Hash"
      [] id = "acct" -> "Acct"
      [] id = "mood" -> "Mood"
      [] id = "pt"   -> "Pt"

\* is_copy: an enum is Copy, a domain follows its inner type, a composite is Copy
\* when every field is.
RECURSIVE IsCopy(_)
IsCopy(id) ==
    LET t == PgType(id)
    IN  CASE t.kind = "Simple"    -> BuiltinDescr(id).is_copy
          [] t.kind = "Enum"      -> TRUE
          [] t.kind = "Domain"    -> IsCopy(t.inner)
          [] t.kind = "Composite" -> \A i \in 1..Len(t.fields) : IsCopy(t.fields[i].ty)

\* The descriptor of a custom type; np is the set of custom types whose borrowed
\* view is not a params view (is_params = false).
CustomDescr(id, np) == Descr(id, RustTyName(id), IsCopy(id), id \notin np)

\* TypeRegistrar.custom_types for the insertion order `ids`.
Registrar(ids, np) == [i \in 1..Len(ids) |-> CustomDescr(ids[i], np)]

\* TypeRegistrar::get
Get(reg, id) ==
    IF id \in BuiltinIds THEN BuiltinDescr(id)
    ELSE LET i == CHOOSE i \in 1..Len(reg) : reg[i].pg_ty = id IN reg[i]

\* CornucopiaType::borrowed_rust_ty: the Rust type of the borrowed view, or of the
\* params view when is_param.
borrowed_rust_ty(d, is_param) ==
    LET t == PgType(d.pg_ty)
    IN  CASE d.pg_ty = "int4"  -> "i32"
          [] d.pg_ty = "text"  -> "&str"
          [] d.pg_ty = "bytea" -> "&[u8]"
          [] OTHER ->
               IF d.is_copy THEN d.rust_ty_name
               ELSE IF is_param /\ ~d.is_params
                      THEN d.rust_ty_name \o "Params"
                      ELSE d.rust_ty_name \o "Borrowed"

\* CornucopiaType.rust_path_from_types
rust_path_from_types(d) == d.rust_ty_name

\* The registrars considered: an insertion order of custom types, every type a
\* composite or domain depends on registered with it.
RegistrarOrders ==
    { <<"addr">>, <<"hash">>, <<"hash", "addr", "acct">>, <<"mood", "addr">>,
      <<"addr", "pt", "hash">>, <<"pt", "mood">> }

Range(f) == {f[i] : i \in DOMAIN f}

\* The emitted code compiles only when a composite that is its own params view
\* (is_params) has no field whose params view is a separate {Name}Params type.
ParamsConsistent(np) ==
    \A id \in CustomIds \ np :
        \A i \in 1..Len(PgType(id).fields) :
            PgType(id).fields[i].ty \notin np

Registrars ==
    UNION { { Registrar(ids, np) :
                np \in {n \in SUBSET {id \in Range(ids) : PgType(id).kind # "Enum"} :
                           ParamsConsistent(n)} } :
            ids \in RegistrarOrders }

(***************************************************************************)
(* Part 4.  The emitter of the `types` module (codegen.rs:91-304, 589-746). *)
(*                                                                         *)
(* An emitted item is a record: what the template writes, with every hole   *)
(* it fills.  The text is a function of the item, so two items are equal    *)
(* exactly when the emitter wrote the same text.                           *)
(***************************************************************************)

\* codegen.rs:91-116
domain_brw_fromsql(struct_name, ty_name, ty_schema) ==
    [item |-> "impl_fromsql", name |-> struct_name \o "Borrowed", kind |-> "Domain",
     ty_name |-> ty_name, ty_schema |-> ty_schema, read_fields |-> <<>>]

\* the `post` of codegen.rs:127 and codegen.rs:178
Post(is_params) == IF is_params THEN "Borrowed" ELSE "Params"

\* codegen.rs:118-168
domain_tosql(reg, struct_name, inner_ty, ty_name, is_params) ==
    [item |-> "impl_tosql", name |-> struct_name \o Post(is_params), kind |-> "Domain",
     ty_name |-> ty_name, nb_fields |-> 0, write_fields |-> <<>>,
     accept_ty |-> borrowed_rust_ty(inner_ty, TRUE), accept_fields |-> <<>>]

\* codegen.rs:179, the field count written into accepts
NbFields(fields) == Len(fields)

\* codegen.rs:180-186, one match arm per field: "name" => to_sql(&self.name, ..)
WriteFields(fields) == [i \in 1..Len(fields) |-> fields[i].name]

\* codegen.rs:187-198, one match arm per field: "name" => <ty as ToSql>::accepts(..)
AcceptFields(reg, fields) ==
    [i \in 1..Len(fields) |->
        [name |-> fields[i].name,
         ty |-> borrowed_rust_ty(Get(reg, fields[i].ty), TRUE)]]

\* codegen.rs:170-263
composite_tosql(reg, struct_name, fields, ty_name, is_params) ==
    [item |-> "impl_tosql", name |-> struct_name \o Post(is_params),
     kind |-> "Composite", ty_name |-> ty_name, nb_fields |-> NbFields(fields),
     write_fields |-> WriteFields(fields), accept_ty |-> "",
     accept_fields |-> AcceptFields(reg, fields)]

\* codegen.rs:273-280, one read per field: let <name> = read_value(fields[index]..)
ReadFields(fields) ==
    [i \in 1..Len(fields) |-> [name |-> fields[i].name, index |-> i - 1]]

\* codegen.rs:265-304
composite_fromsql(struct_name, fields, ty_name, ty_schema) ==
    [item |-> "impl_fromsql", name |-> struct_name \o "Borrowed", kind |-> "Composite",
     ty_name |-> ty_name, ty_schema |-> ty_schema, read_fields |-> ReadFields(fields)]

Struct(name, derive, pg_name, fields) ==
    [item |-> "struct", name |-> name, derive |-> derive, pg_name |-> pg_name,
     fields |-> fields]

\* impl From<{from}> for {name}: per field, whether owning_call converts it
ImplFrom(name, from, fields) ==
    [item |-> "impl_from", name |-> name, from |-> from, fields |-> fields]

CopyDerive(is_copy) == IF is_copy THEN <<"Copy">> ELSE <<>>

\* codegen.rs:597-604
GenEnum(ty) ==
    <<[item |-> "enum", name |-> ty.rust_ty_name,
       derive |-> <<"Debug", "ToSql", "FromSql", "Clone", "Copy", "PartialEq", "Eq">>,
       pg_name |-> PgType(ty.pg_ty).name, variants |-> PgType(ty.pg_ty).variants]>>

\* codegen.rs:628-636: the {Name}Params newtype of a domain
DomainParamsStruct(struct_name, inner_ty, is_params) ==
    IF ~is_params
      THEN <<Struct(struct_name \o "Params", <<"Debug", "Clone">>, "",
                    <<Field("0", borrowed_rust_ty(inner_ty, TRUE))>>)>>
      ELSE <<>>

\* codegen.rs:605-646
GenDomain(reg, ty) ==
    LET t == PgType(ty.pg_ty)
        struct_name == ty.rust_ty_name
        inner_ty == Get(reg, t.inner)
        owned ==
            <<Struct(struct_name,
                     <<"Debug">> \o CopyDerive(ty.is_copy)
                         \o <<"Clone", "PartialEq", "ToSql", "FromSql">>,
                     t.name, <<Field("0", rust_path_from_types(inner_ty))>>)>>
    IN  IF ~ty.is_copy
          THEN owned
               \o <<Struct(struct_name \o "Borrowed", <<"Debug">>, "",
                           <<Field("0", borrowed_rust_ty(inner_ty, FALSE))>>),
                    ImplFrom(struct_name, struct_name \o "Borrowed",
                             <<Field("0", "owning_call")>>),
                    domain_brw_fromsql(struct_name, t.name, t.schema)>>
               \o DomainParamsStruct(struct_name, inner_ty, ty.is_params)
               \o <<domain_tosql(reg, struct_name, inner_ty, t.name, ty.is_params)>>
          ELSE owned

\* A composite emitter that writes the {Name}Params struct whatever is_params says.
MutCompositeParamsStruct(reg, struct_name, fields, is_params) ==
    <<Struct(struct_name \o "Params", <<"Debug", "Clone">>, "",
             [i \in 1..Len(fields) |->
                 Field(fields[i].name,
                       borrowed_rust_ty(Get(reg, fields[i].ty), TRUE))])>>

\* codegen.rs:695-710: the {Name}Params struct of a composite
CompositeParamsStruct(reg, struct_name, fields, is_params) ==
    IF ~is_params
      THEN <<Struct(struct_name \o "Params", <<"Debug", "Clone">>, "",
                    [i \in 1..Len(fields) |->
                        Field(fields[i].name,
                              borrowed_rust_ty(Get(reg, fields[i].ty), TRUE))])>>
      ELSE <<>>

\* codegen.rs:647-720
GenComposite(reg, ty) ==
    LET t == PgType(ty.pg_ty)
        struct_name == ty.rust_ty_name
        fields == t.fields
        owned ==
            <<Struct(struct_name,
                     <<"Debug", "ToSql", "FromSql">> \o CopyDerive(ty.is_copy)
                         \o <<"Clone", "PartialEq">>,
                     t.name,
                     [i \in 1..Len(fields) |->
                        Field(fields[i].name,
                              rust_path_from_types(Get(reg, fields[i].ty)))])>>
    IN  IF ~ty.is_copy
          THEN owned
               \o <<Struct(struct_name \o "Borrowed", <<"Debug">>, "",
                           [i \in 1..Len(fields) |->
                              Field(fields[i].name,
                                    borrowed_rust_ty(Get(reg, fields[i].ty), FALSE))]),
                    ImplFrom(struct_name, struct_name \o "Borrowed",
                             [i \in 1..Len(fields) |->
                                Field(fields[i].name,
                                      IF Get(reg, fields[i].ty).is_copy
                                        THEN "" ELSE "owning_call")]),
                    composite_fromsql(struct_name, fields, t.name, t.schema)>>
               \o CompositeParamsStruct(reg, struct_name, fields, ty.is_params)
               \o <<composite_tosql(reg, struct_name, fields, t.name, ty.is_params)>>
          ELSE owned

\* codegen.rs:591-723
gen_custom_type(reg, ty) ==
    CASE PgType(ty.pg_ty).kind = "Enum"      -> GenEnum(ty)
      [] PgType(ty.pg_ty).kind = "Domain"    -> GenDomain(reg, ty)
      [] PgType(ty.pg_ty).kind = "Composite" -> GenComposite(reg, ty)

RECURSIVE Flatten(_)
Flatten(ss) == IF ss = <<>> THEN <<>> ELSE Head(ss) \o Flatten(Tail(ss))

\* SelectSeq with the registrar's order kept: the Vec a schema's entry holds after
\* the loop of codegen.rs:728-737.
TypesOfSchema(reg, schema) ==
    SelectSeq(reg, LAMBDA ty : PgType(ty.pg_ty).schema = schema)

\* the keys of the HashMap of codegen.rs:727
Schemas(reg) == {PgType(reg[i].pg_ty).schema : i \in 1..Len(reg)}

\* Every order in which a set can be listed.
Orders(S) ==
    {o \in [1..Cardinality(S) -> S] : \A i, j \in DOMAIN o : i # j => o[i] # o[j]}

\* codegen.rs:725-746.  `order` is the order in which the HashMap `modules` yields
\* its entries at codegen.rs:739: std's HashMap is seeded per process (RandomState),
\* so it is any order of the keys.
gen_type_modules(reg, order) ==
    [i \in 1..Len(order) |->
        [mod_name |-> order[i],
         items |-> Flatten([k \in 1..Len(TypesOfSchema(reg, order[i])) |->
                              gen_custom_type(reg, TypesOfSchema(reg, order[i])[k])])]]

(***************************************************************************)
(* Part 5.  The generated codecs at run time.                              *)
(*                                                                         *)
(* env is the emitted `types` module: the structs and the ToSql / FromSql   *)
(* implementations.  A Rust type is named by its struct name; "i32", "&str" *)
(* and "&[u8]" are the driver's own implementations.                       *)
(***************************************************************************)

Env(reg) == Flatten([i \in 1..Len(reg) |-> gen_custom_type(reg, reg[i])])

HasItem(env, item, name) ==
    \E i \in 1..Len(env) : env[i].item = item /\ env[i].name = name

ItemOf(env, item, name) ==
    env[CHOOSE i \in 1..Len(env) : env[i].item = item /\ env[i].name = name]

\* the Rust type of field `name` of the struct `rty`
FieldTy(env, rty, name) ==
    LET fs == ItemOf(env, "struct", rty).fields
    IN  fs[CHOOSE i \in 1..Len(fs) : fs[i].name = name].ty

LeafTys == {"i32", "&str", "&[u8]"}

\* <i32 / &str / &[u8] as ToSql>::accepts and FromSql::accepts (postgres-types)
LeafAccepts(rty, tyid) ==
    CASE rty = "i32"   -> tyid = "int4"
      [] rty = "&str"  -> tyid = "text"
      [] rty = "&[u8]" -> tyid = "bytea"

RECURSIVE ToSqlAccepts(_, _, _)

\* A composite accepts that forgets the field count (codegen.rs:243-245 left out).
MutCompositeAccepts(env, impl, tyid) ==
    LET t == PgType(tyid)
    IN  IF t.name # impl.ty_name THEN FALSE
        ELSE IF t.kind = "Composite"
          THEN \A i \in 1..Len(t.fields) :
                  \E k \in 1..Len(impl.accept_fields) :
                     /\ impl.accept_fields[k].name = t.fields[i].name
                     /\ ToSqlAccepts(env, impl.accept_fields[k].ty, t.fields[i].ty)
          ELSE FALSE

\* The generated accepts of a composite, codegen.rs:237-253.  The match of
\* codegen.rs:246-249 takes the first arm whose name equals the field's.
CompositeAccepts(env, impl, tyid) ==
    LET t == PgType(tyid)
        arms == impl.accept_fields
        Arm(f) == CHOOSE k \in 1..Len(arms) :
                     /\ arms[k].name = f.name
                     /\ \A j \in 1..(k - 1) : arms[j].name # f.name
    IN  IF t.name # impl.ty_name THEN FALSE
        ELSE IF t.kind = "Composite"
          THEN IF Len(t.fields) # impl.nb_fields THEN FALSE
               ELSE \A i \in 1..Len(t.fields) :
                      IF \E k \in 1..Len(arms) : arms[k].name = t.fields[i].name
                        THEN ToSqlAccepts(env, arms[Arm(t.fields[i])].ty, t.fields[i].ty)
                        ELSE FALSE
          ELSE FALSE

\* The generated accepts of a domain, codegen.rs:145-155.
DomainAccepts(env, impl, tyid) ==
    LET t == PgType(tyid)
    IN  IF t.name # impl.ty_name THEN FALSE
        ELSE IF t.kind = "Domain"
          THEN ToSqlAccepts(env, impl.accept_ty, t.inner)
          ELSE FALSE

\* <rty as ToSql>::accepts(ty)
ToSqlAccepts(env, rty, tyid) ==
    IF rty \in LeafTys THEN LeafAccepts(rty, tyid)
    ELSE LET impl == ItemOf(env, "impl_tosql", rty)
         IN  IF impl.kind = "Domain" THEN DomainAccepts(env, impl, tyid)
             ELSE CompositeAccepts(env, impl, tyid)

\* Result of a to_sql: res is "No" / "Yes" (IsNull), "Err" or "Panic"; buf is the
\* buffer afterwards; calls holds every to_sql invocation made, as <<Rust type,
\* postgres type>>.
SqlRes(res, err, buf, calls) == [res |-> res, err |-> err, buf |-> buf, calls |-> calls]

\* The length written into a field's slot (codegen.rs:224): bytes after the slot.
MutSlotLen(buf, base) == WSub(ByteLen(buf), base)

SlotLen(buf, base) == WSub(WSub(ByteLen(buf), base), W(4))

\* buf[base..base + 4].copy_from_slice(..), codegen.rs:233
PatchSlot(buf, base, four) ==
    Cat(Cat(TakeW(buf, base), four), DropW(buf, WAdd(base, W(4))))

RECURSIVE to_sql(_, _, _, _, _)
RECURSIVE CompositeLoop(_, _, _, _, _, _, _)

\* The loop of the generated composite to_sql, codegen.rs:213-234, from field i on.
CompositeLoop(env, rty, v, fields, i, buf, calls) ==
    IF i > Len(fields) THEN SqlRes("No", "", buf, calls)
    ELSE
      LET field == fields[i]
          impl == ItemOf(env, "impl_tosql", rty)
          b1 == Cat(buf, I32ToBe(PgType(field.ty).oid))
          base == ByteLen(b1)
          b2 == Cat(b1, FromBytes(<<0, 0, 0, 0>>))
      IN  IF ~(\E k \in 1..Len(impl.write_fields) : impl.write_fields[k] = field.name)
            THEN SqlRes("Panic", "unreachable", b2, calls)
            ELSE
              LET r == to_sql(env, FieldTy(env, rty, field.name), v[field.name],
                              field.ty, b2)
                  len == SlotLen(r.buf, base)
              IN  IF r.res \in {"Err", "Panic"}
                    THEN SqlRes(r.res, r.err, r.buf, calls \cup r.calls)
                  ELSE IF r.res = "No" /\ ~WLe(len, W(I32Max))
                    THEN SqlRes("Err", "value too large to transmit", r.buf,
                                calls \cup r.calls)
                  ELSE CompositeLoop(env, rty, v, fields, i + 1,
                         PatchSlot(r.buf, base,
                                   I32ToBe(IF r.res = "Yes" THEN -1 ELSE WNat(len))),
                         calls \cup r.calls)

\* The generated composite to_sql, codegen.rs:203-236.
CompositeToSql(env, rty, v, tyid, buf) ==
    LET t == PgType(tyid)
    IN  IF t.kind # "Composite" THEN SqlRes("Panic", "unreachable", buf, {})
        ELSE CompositeLoop(env, rty, v, t.fields, 1,
                           Cat(buf, I32ToBe(Len(t.fields))), {})

\* The generated domain to_sql, codegen.rs:131-144.
DomainToSql(env, rty, v, tyid, buf) ==
    LET t == PgType(tyid)
    IN  IF t.kind # "Domain" THEN SqlRes("Panic", "unreachable", buf, {})
        ELSE to_sql(env, FieldTy(env, rty, "0"), v["0"], t.inner, buf)

\* ToSql::to_sql of a value v of Rust type rty against the postgres type tyid.
to_sql(env, rty, v, tyid, buf) ==
    LET r == CASE rty = "i32" -> SqlRes("No", "", Cat(buf, I32ToBe(v)), {})
               [] rty \in {"&str", "&[u8]"} -> SqlRes("No", "", Cat(buf, v), {})
               [] OTHER ->
                    IF ItemOf(env, "impl_tosql", rty).kind = "Domain"
                      THEN DomainToSql(env, rty, v, tyid, buf)
                      ELSE CompositeToSql(env, rty, v, tyid, buf)
    IN  [r EXCEPT !.calls = @ \cup {<<rty, tyid>>}]

\* to_sql_checked, codegen.rs:156-165 and 254-260: postgres_types::__to_sql_checked
\* answers WrongType unless accepts approves the type, and only then calls to_sql.
MutToSqlChecked(env, rty, v, tyid) == to_sql(env, rty, v, tyid, <<>>)

to_sql_checked(env, rty, v, tyid) ==
    IF ~ToSqlAccepts(env, rty, tyid) THEN SqlRes("Err", "WrongType", <<>>, {})
    ELSE to_sql(env, rty, v, tyid, <<>>)

\* <rty as FromSql>::accepts(ty): codegen.rs:111-113 and codegen.rs:299-301.
FromSqlAccepts(env, rty, tyid) ==
    IF rty \in LeafTys THEN LeafAccepts(rty, tyid)
    ELSE LET impl == ItemOf(env, "impl_fromsql", rty)
         IN  PgType(tyid).name = impl.ty_name /\ PgType(tyid).schema = impl.ty_schema

\* Result of a from_sql: res is "Ok", "Err" or "Panic"; val the decoded value; rest
\* the bytes left unread.
ReadRes(res, err, val, rest) == [res |-> res, err |-> err, val |-> val, rest |-> rest]

RECURSIVE from_sql(_, _, _, _)

\* postgres_types::private::read_value::<T> (codegen.rs:109, 277): a length, that
\* many bytes, and T::from_sql_nullable on them; a negative length is a null, which
\* from_sql_null refuses for every T that is not an Option.
read_value(env, rty, tyid, buf) ==
    LET l == read_be_i32(buf)
    IN  IF ~l.ok THEN ReadRes("Err", l.err, None, buf)
        ELSE IF l.val < 0 THEN ReadRes("Err", "WasNull", None, l.rest)
        ELSE IF ~WLe(W(l.val), ByteLen(l.rest))
          THEN ReadRes("Err", "invalid buffer size", None, l.rest)
        ELSE LET f == from_sql(env, rty, tyid, TakeW(l.rest, W(l.val)))
             IN  [f EXCEPT !.rest = DropW(l.rest, W(l.val))]

\* The generated domain from_sql, codegen.rs:95-110.
DomainFromSql(env, rty, tyid, raw) ==
    LET t == PgType(tyid)
        o == read_be_i32(raw)
    IN  IF t.kind # "Domain" THEN ReadRes("Panic", "unreachable", None, raw)
        ELSE IF ~o.ok THEN ReadRes("Err", o.err, None, raw)
        ELSE LET r == read_value(env, FieldTy(env, rty, "0"), t.inner, o.rest)
             IN  IF r.res = "Ok" THEN [r EXCEPT !.val = ("0" :> r.val)] ELSE r

RECURSIVE CompositeReads(_, _, _, _, _, _)

\* The reads of the generated composite from_sql, codegen.rs:295 (read_fields),
\* from the k-th on; acc holds the fields read so far.
CompositeReads(env, rty, fields, k, buf, acc) ==
    LET reads == ItemOf(env, "impl_fromsql", rty).read_fields
    IN  IF k > Len(reads) THEN ReadRes("Ok", "", acc, buf)
        ELSE
          LET o == read_be_i32(buf)
          IN  IF ~o.ok THEN ReadRes("Err", o.err, None, buf)
              ELSE IF reads[k].index + 1 > Len(fields)
                THEN ReadRes("Panic", "index out of bounds", None, o.rest)
              ELSE
                LET r == read_value(env, FieldTy(env, rty, reads[k].name),
                                    fields[reads[k].index + 1].ty, o.rest)
                IN  IF r.res # "Ok" THEN r
                    ELSE CompositeReads(env, rty, fields, k + 1, r.rest,
                                        (reads[k].name :> r.val) @@ acc)

\* The generated composite from_sql, codegen.rs:285-297.
CompositeFromSql(env, rty, tyid, raw) ==
    LET t == PgType(tyid)
        n == read_be_i32(raw)
    IN  IF t.kind # "Composite" THEN ReadRes("Panic", "unreachable", None, raw)
        ELSE IF ~n.ok THEN ReadRes("Err", n.err, None, raw)
        ELSE CompositeReads(env, rty, t.fields, 1, n.rest, <<>>)

\* FromSql::from_sql into the Rust type rty, from the bytes raw of a value of the
\* postgres type tyid.
from_sql(env, rty, tyid, raw) ==
    CASE rty = "i32" ->
           IF ByteLen(raw) = W(4) THEN ReadRes("Ok", "", I32FromBe(raw), <<>>)
           ELSE ReadRes("Err", "invalid buffer size", None, raw)
      [] rty = "&str" ->
           IF Utf8Valid(raw) THEN ReadRes("Ok", "", raw, <<>>)
           ELSE ReadRes("Err", "invalid utf-8", None, raw)
      [] rty = "&[u8]" -> ReadRes("Ok", "", raw, <<>>)
      [] OTHER ->
           IF ItemOf(env, "impl_fromsql", rty).kind = "Domain"
             THEN DomainFromSql(env, rty, tyid, raw)
             ELSE CompositeFromSql(env, rty, tyid, raw)

(***************************************************************************)
(* Part 6.  Values, and the driver's use of the codecs.                    *)
(***************************************************************************)

\* "ab"
StrAb == FromBytes(<<97, 98>>)

\* i32::MAX bytes: the longest value a slot can describe
StrMax == <<Run(97, I32Max)>>

\* i32::MAX + 1 bytes
StrOver == <<Run(97, I32Max), Run(98, 1)>>

\* nine bytes that read as an OID word, a length word of 1 and one byte
BytesFramed == FromBytes(<<0, 0, 0, 17, 0, 0, 0, 1, 9>>)

\* The values of a Rust type that are tried.
RECURSIVE Values(_, _)
RECURSIVE StructValues(_, _, _)

StructValues(env, fs, i) ==
    IF i = 1 THEN {(fs[1].name :> x) : x \in Values(env, fs[1].ty)}
    ELSE UNION { {(fs[i].name :> x) @@ g : x \in Values(env, fs[i].ty)} :
                 g \in StructValues(env, fs, i - 1) }

Values(env, rty) ==
    CASE rty = "i32"   -> {7, -2}
      [] rty = "&str"  -> {<<>>, StrAb, StrMax, StrOver}
      [] rty = "&[u8]" -> {FromBytes(<<1, 2>>), BytesFramed, StrOver}
      [] OTHER -> StructValues(env, ItemOf(env, "struct", rty).fields,
                               Len(ItemOf(env, "struct", rty).fields))

\* the Rust types with a generated ToSql / FromSql
ToSqlTys(env) == {env[i].name : i \in {j \in 1..Len(env) : env[j].item = "impl_tosql"}}

FromSqlTys(env) == {env[i].name : i \in {j \in 1..Len(env) : env[j].item = "impl_fromsql"}}

NoSqlRes == SqlRes("", "", <<>>, {})

NoReadRes == ReadRes("", "", None, <<>>)

CodecIdle ==
    /\ cPc = "off"
    /\ cVal = None
    /\ cRty = ""
    /\ cTy = ""
    /\ cBuf = <<>>
    /\ cRes = NoSqlRes
    /\ cAccepts = FALSE
    /\ cCalls = {}
    /\ dRty = ""
    /\ dTy = ""
    /\ dAccepts = FALSE
    /\ dRes = NoReadRes

CodecInit ==
    /\ cPc = "idle"
    /\ cVal = None
    /\ cRty = ""
    /\ cTy = ""
    /\ cBuf = <<>>
    /\ cRes = NoSqlRes
    /\ cAccepts = FALSE
    /\ cCalls = {}
    /\ dRty = ""
    /\ dTy = ""
    /\ dAccepts = FALSE
    /\ dRes = NoReadRes

\* The driver binds a parameter: it calls to_sql_checked on the value with the type
\* the statement declares for it.
Encode ==
    /\ cPc = "idle"
    /\ \E rty \in ToSqlTys(Env(registrar)), tyid \in RuntimeIds :
         \E v \in Values(Env(registrar), rty) :
            LET r == to_sql_checked(Env(registrar), rty, v, tyid)
            IN  /\ cRty' = rty
                /\ cTy' = tyid
                /\ cVal' = v
                /\ cAccepts' = ToSqlAccepts(Env(registrar), rty, tyid)
                /\ cRes' = [r EXCEPT !.buf = <<>>, !.calls = {}]
                /\ cBuf' = r.buf
                /\ cCalls' = r.calls
    /\ cPc' = "encoded"
    /\ UNCHANGED <<dRty, dTy, dAccepts, dRes, cliVars, genVars, queryVars>>

\* The driver reads a column whose bytes are the ones written: it asks
\* FromSql::accepts for the column's type and calls from_sql when it approves
\* (WrongType otherwise).
Decode ==
    /\ cPc = "encoded"
    /\ cRes.res \in {"No", "Yes"}
    /\ \E rty \in FromSqlTys(Env(registrar)), tyid \in RuntimeIds :
         /\ dRty' = rty
         /\ dTy' = tyid
         /\ dAccepts' = FromSqlAccepts(Env(registrar), rty, tyid)
         /\ dRes' = IF FromSqlAccepts(Env(registrar), rty, tyid)
                      THEN from_sql(Env(registrar), rty, tyid, cBuf)
                      ELSE ReadRes("Err", "WrongType", None, cBuf)
    /\ cPc' = "decoded"
    /\ UNCHANGED <<cVal, cRty, cTy, cBuf, cRes, cAccepts, cCalls, cliVars, genVars, queryVars>>

NoQRes == [call |-> 0, method |-> "", res |-> "", err |-> "", val |-> <<>>]

QueryIdle ==
    /\ qSpecs = <<>>
    /\ qBld = None
    /\ qBuilt = None
    /\ qMaps = <<>>
    /\ qLog = <<>>
    /\ qRes = NoQRes
    /\ qCalls = 0

GenIdle ==
    /\ modules = <<>>
    /\ isAsync = FALSE
    /\ outputs = <<>>

CliNext ==
    \/ Parse
    \/ NewMigration
    \/ FromUrl
    \/ RunMigrations
    \/ GenerateLive
    \/ CornucopiaConn
    \/ GenerateManaged
    \/ Cleanup
    \/ ReturnOk

\* run() alone: no generate() run, no codec in use.
InitCli == CliInit /\ GenIdle /\ registrar = <<>> /\ CodecIdle /\ QueryIdle

SpecCli == InitCli /\ [][CliNext]_vars

CodecNext ==
    \/ Encode
    \/ Decode

\* The code generated for a registrar that has a ToSql impl, compiled and in use.
InitCodec ==
    /\ CodecInit /\ GenIdle /\ CliIdle /\ QueryIdle
    /\ registrar \in {r \in Registrars : ToSqlTys(Env(r)) # {}}

SpecCodec == InitCodec /\ [][CodecNext]_vars

(***************************************************************************)
(* Part 7.  The emitter of the `queries` module (codegen.rs:306-587) and    *)
(* generate() (codegen.rs:748-787).                                        *)
(***************************************************************************)

\* backend, codegen.rs:332-336, 439-462, 544-548
Backend(is_async) == IF is_async THEN "tokio_postgres" ELSE "postgres"

\* client_mut, same places
ClientMut(is_async) == IF is_async THEN "" ELSE "mut"

\* the type `{row}Query<'a, C, {t}, {n}>`
RetQuery(row, t, n) == [shape |-> "Query", row |-> row, t |-> t, n |-> n, backend |-> ""]

\* the type `Result<u64, {backend}::Error>`
RetU64(backend) == [shape |-> "Result<u64>", row |-> "", t |-> "", n |-> 0, backend |-> backend]

Param(name, ty) == [name |-> name, ty |-> ty]

\* nb_params, codegen.rs:559
QueryFnN(query) == Len(query.params)

\* A row query emitted with the shape of a void one.
MutQueryHasRow(query) == FALSE

\* `if let Some((idx, index)) = row`, codegen.rs:550
QueryHasRow(query) == query.row.some

\* codegen.rs:530-587
gen_query_fn(reg, module_, query, is_async) ==
    LET param_list ==
            [i \in 1..Len(query.params) |->
                Param(query.params[i].name,
                      borrowed_rust_ty(Get(reg, query.params[i].ty), TRUE))]
        param_names == [i \in 1..Len(query.params) |-> query.params[i].name]
    IN  IF QueryHasRow(query)
          THEN LET row_name == module_.rows[query.row.idx + 1].name
               IN  [item |-> "fn", name |-> query.name, fn_async |-> FALSE,
                    client_mut |-> ClientMut(is_async), params |-> param_list,
                    ret |-> RetQuery(row_name, row_name, QueryFnN(query)),
                    body |-> [kind |-> "build", calls |-> <<>>,
                              params |-> param_names, query |-> query.sql,
                              indexes |-> query.row.index,
                              mapper |-> row_name \o "::from", await |-> FALSE]]
          ELSE [item |-> "fn", name |-> query.name, fn_async |-> is_async,
                client_mut |-> ClientMut(is_async), params |-> param_list,
                ret |-> RetU64(Backend(is_async)),
                body |-> [kind |-> "execute", calls |-> <<"prepare", "execute">>,
                          params |-> param_names, query |-> query.sql,
                          indexes |-> <<>>, mapper |-> "", await |-> is_async]]

\* The queries a params struct gets a method for: every sharing query but the last.
MutParamsQueries(params) == SubSeq(params.queries, 1, Len(params.queries) - 1)

\* `queries`, codegen.rs:316 and 337
ParamsQueries(params) == params.queries

\* One method of the params struct, codegen.rs:337-360, for the query of index idx.
ParamsMethod(module_, idx, is_copy, is_async) ==
    LET query == module_.queries[idx + 1]
    IN  [name |-> query.name,
         fn_async |-> ~query.row.some /\ is_async,
         fn_lifetime |-> IF is_copy THEN "'a," ELSE "",
         client_mut |-> ClientMut(is_async),
         ret |-> IF query.row.some
                   THEN RetQuery(module_.rows[query.row.idx + 1].name,
                                 module_.rows[query.row.idx + 1].name,
                                 Len(query.params))
                   ELSE RetU64(Backend(is_async)),
         call |-> query.name,
         args |-> [i \in 1..Len(query.params) |-> "&self." \o query.params[i].name],
         await |-> ~query.row.some /\ is_async]

\* codegen.rs:306-367
gen_params_struct(reg, module_, params, is_async) ==
    LET is_copy == \A i \in 1..Len(params.fields) : Get(reg, params.fields[i].ty).is_copy
        queries == ParamsQueries(params)
    IN  <<[item |-> "struct", name |-> params.name,
           derive |-> <<"Debug">> \o (IF is_copy THEN <<"Clone", "Copy">> ELSE <<>>),
           pg_name |-> "",
           fields |-> [i \in 1..Len(params.fields) |->
                         Field(params.fields[i].name,
                               borrowed_rust_ty(Get(reg, params.fields[i].ty), TRUE))]],
          [item |-> "impl", name |-> params.name,
           methods |-> [k \in 1..Len(queries) |->
                          ParamsMethod(module_, queries[k], is_copy, is_async)]]>>

Method(name, fn_async, calls) == [name |-> name, fn_async |-> fn_async, calls |-> calls]

\* codegen.rs:467-526: the {name}Query struct and its methods.
RowQueryItems(row, is_async) ==
    <<[item |-> "struct", name |-> row.name \o "Query", derive |-> <<>>, pg_name |-> "",
       fields |-> <<Field("client", "&'a " \o ClientMut(is_async) \o " C"),
                    Field("params", "[&'a (dyn ToSql + Sync); N]"),
                    Field("indexes", "&'static [usize; K]"),
                    Field("query", "&'static str"),
                    Field("mapper", "fn(" \o row.name
                              \o (IF row.is_copy THEN "" ELSE "Borrowed") \o ") -> T")>>,
       nb_fields |-> Len(row.fields)],
      [item |-> "impl", name |-> row.name \o "Query",
       get_fields |-> [i \in 1..Len(row.fields) |->
                         [name |-> row.fields[i].name, index |-> i - 1]],
       methods |->
         <<Method("map", FALSE, <<"client", "params", "query", "indexes">>),
           Method("extractor", FALSE, <<"get">>),
           Method("stmt", is_async, <<"prepare">>),
           Method("one", is_async, <<"stmt", "query_one", "extractor", "mapper">>),
           Method("vec", is_async, <<"stream", "collect">>),
           Method("opt", is_async, <<"stmt", "query_opt", "extractor", "mapper">>),
           Method("stream", is_async, <<"stmt", "query_raw", "extractor", "mapper">>)>>]>>

\* CornucopiaType.rust_path_from_queries
rust_path_from_queries(d) == d.rust_ty_name

Nullable(is_nullable, ty) == IF is_nullable THEN "Option<" \o ty \o ">" ELSE ty

\* codegen.rs:369-528
gen_row_structs(reg, row, is_async) ==
    <<Struct(row.name,
             <<"Debug", "Clone", "PartialEq">> \o CopyDerive(row.is_copy), "",
             [i \in 1..Len(row.fields) |->
                Field(row.fields[i].name,
                      Nullable(row.fields[i].is_nullable,
                               rust_path_from_queries(Get(reg, row.fields[i].ty))))])>>
    \o (IF ~row.is_copy
          THEN <<Struct(row.name \o "Borrowed", <<>>, "",
                        [i \in 1..Len(row.fields) |->
                           Field(row.fields[i].name,
                                 Nullable(row.fields[i].is_nullable,
                                    borrowed_rust_ty(Get(reg, row.fields[i].ty), FALSE)))]),
                 ImplFrom(row.name, row.name \o "Borrowed",
                          [i \in 1..Len(row.fields) |->
                             Field(row.fields[i].name,
                                   IF Get(reg, row.fields[i].ty).is_copy
                                     THEN "" ELSE "owning_call")])>>
          ELSE <<>>)
    \o RowQueryItems(row, is_async)

\* import, codegen.rs:753-757
Import(is_async) ==
    IF is_async THEN <<"futures::{StreamExt, TryStreamExt}", "cornucopia_client::GenericClient">>
    ELSE <<"postgres::fallible_iterator::FallibleIterator", "postgres::GenericClient">>

\* One `pub mod {name}` of the queries module, codegen.rs:768-783.
GenQueryModule(reg, module_, is_async) ==
    [mod_name |-> module_.name,
     import |-> Import(is_async),
     params |-> [i \in 1..Len(module_.params) |->
                   gen_params_struct(reg, module_, module_.params[i], is_async)],
     rows |-> [i \in 1..Len(module_.rows) |->
                 gen_row_structs(reg, module_.rows[i], is_async)],
     queries |-> [i \in 1..Len(module_.queries) |->
                    gen_query_fn(reg, module_, module_.queries[i], is_async)]]

\* codegen.rs:748-787.  The text is parsed and printed by prettyplease, which lays
\* out the items it is given in the order it is given them: the output is a
\* function of the items emitted.  `order` is the HashMap order of
\* gen_type_modules.
generate(reg, modules_, is_async, order) ==
    [types |-> gen_type_modules(reg, order),
     queries |-> [i \in 1..Len(modules_) |-> GenQueryModule(reg, modules_[i], is_async)]]

(***************************************************************************)
(* Part 8.  The inputs of generate(): prepared modules.                    *)
(*                                                                         *)
(* prepare_queries builds a PreparedModule from the queries of a file: the  *)
(* rows and the params are shared between the queries whose columns, or     *)
(* parameters, are the same up to order; the first query to bring a shape   *)
(* fixes the stored field order.                                           *)
(***************************************************************************)

MaxQueries == 2

MaxRuns == 2

QueryNames == <<"alpha", "beta", "gamma", "delta">>

Pascal(name) ==
    CASE name = "alpha" -> "Alpha"
      [] name = "beta"  -> "Beta"
      [] name = "gamma" -> "Gamma"
      [] name = "delta" -> "Delta"

\* the columns and parameters a query can have, with their types
ColTy(name) == IF name = "id" THEN "int4" ELSE "text"

ColNullable(name) == name = "name"

ParamLists == {<<>>, <<"id", "name">>, <<"name", "id">>}

ColLists == {<<>>, <<"id">>, <<"id", "name">>, <<"name", "id">>}

\* the position of name x in the list xs, from 0
IndexOf(xs, x) == (CHOOSE j \in 1..Len(xs) : xs[j] = x) - 1

Names(fields) == {fields[i].name : i \in 1..Len(fields)}

\* the 1-based place of the shape with these names in shapes, Len + 1 when new
ShapeAt(shapes, names) ==
    IF \E i \in 1..Len(shapes) : Names(shapes[i].fields) = names
      THEN CHOOSE i \in 1..Len(shapes) : Names(shapes[i].fields) = names
      ELSE Len(shapes) + 1

RECURSIVE Prepare(_, _, _)
Prepare(specs, k, acc) ==
    IF k > Len(specs) THEN acc
    ELSE
      LET q == specs[k]
          ri == ShapeAt(acc.rows, Range(q.cols))
          rows1 ==
              IF q.cols # <<>> /\ ri > Len(acc.rows)
                THEN Append(acc.rows,
                       [name |-> Pascal(q.name),
                        fields |-> [i \in 1..Len(q.cols) |->
                                      [name |-> q.cols[i], ty |-> ColTy(q.cols[i]),
                                       is_nullable |-> ColNullable(q.cols[i])]],
                        is_copy |-> \A i \in 1..Len(q.cols) : IsCopy(ColTy(q.cols[i]))])
                ELSE acc.rows
          pi == ShapeAt(acc.params, Range(q.params))
          params1 ==
              IF q.params = <<>> THEN acc.params
              ELSE IF pi > Len(acc.params)
                THEN Append(acc.params,
                       [name |-> Pascal(q.name) \o "Params",
                        fields |-> [i \in 1..Len(q.params) |->
                                      Param(q.params[i], ColTy(q.params[i]))],
                        queries |-> <<k - 1>>])
                ELSE [acc.params EXCEPT ![pi].queries = Append(@, k - 1)]
          query ==
              [name |-> q.name,
               params |-> [i \in 1..Len(q.params) |-> Param(q.params[i], ColTy(q.params[i]))],
               row |-> IF q.cols = <<>>
                         THEN [some |-> FALSE, idx |-> 0, index |-> <<>>]
                         ELSE [some |-> TRUE, idx |-> ri - 1,
                               index |-> [i \in 1..Len(rows1[ri].fields) |->
                                            IndexOf(q.cols, rows1[ri].fields[i].name)]],
               sql |-> "sql of " \o q.name]
      IN  Prepare(specs, k + 1,
                  [acc EXCEPT !.queries = Append(@, query), !.rows = rows1,
                              !.params = params1])

PrepareModule(name, specs) ==
    Prepare(specs, 1, [name |-> name, queries |-> <<>>, rows |-> <<>>, params |-> <<>>])

\* the query files of up to MaxQueries queries
QuerySpecs ==
    UNION { { [i \in 1..n |-> [name |-> QueryNames[i], params |-> c[i][1], cols |-> c[i][2]]] :
                c \in [1..n -> ParamLists \X ColLists] } :
            n \in 0..MaxQueries }

Modules == {PrepareModule("users", sp) : sp \in QuerySpecs}

OrdersModule ==
    PrepareModule("orders",
        <<[name |-> "alpha", params |-> <<"id">>, cols |-> <<>>],
          [name |-> "beta", params |-> <<"id">>, cols |-> <<"name">>]>>)

DefaultRegistrar == Registrar(<<"mood", "addr">>, {"addr"})

\* What generate() is run on: every module with one registrar, every registrar
\* with one pair of modules, in both modes.
GenInputs ==
    {<<DefaultRegistrar, <<m>> >> : m \in Modules}
        \cup {<<r, <<OrdersModule, PrepareModule("users", <<>>)>> >> : r \in Registrars}
        \cup {<<<<>>, <<>> >>}

GenInit ==
    /\ \E inp \in GenInputs :
        /\ registrar = inp[1]
        /\ modules = inp[2]
    /\ isAsync \in BOOLEAN
    /\ outputs = <<>>

\* One run of generate() on the inputs: codegen.rs:748-787.
Generate ==
    /\ Len(outputs) < MaxRuns
    /\ \E order \in Orders(Schemas(registrar)) :
         outputs' = Append(outputs, generate(registrar, modules, isAsync, order))
    /\ UNCHANGED <<registrar, modules, isAsync, cliVars, codecVars, queryVars>>

GenNext == Generate

InitGen == GenInit /\ CliIdle /\ CodecIdle /\ QueryIdle

SpecGen == InitGen /\ [][GenNext]_vars

(***************************************************************************)
(* Part 9.  The generated query code at run time: the query functions      *)
(* (codegen.rs:562-584) and the {Row}Query builder (codegen.rs:467-526),    *)
(* run against a client that may fail any call.                            *)
(***************************************************************************)

MaxCalls == 4

\* the mappers a caller hands to map()
Mappers == {"f", "g"}

\* the emitted module in use, and its i-th query function
QMod == outputs[1].queries[1]

QFn(i) == QMod.queries[i]

\* the emitted `impl {name}Query`
RowQueryImpl(name) ==
    LET r == CHOOSE r \in 1..Len(QMod.rows) :
                \E k \in 1..Len(QMod.rows[r]) :
                    QMod.rows[r][k].item = "impl" /\ QMod.rows[r][k].name = name
        k == CHOOSE k \in 1..Len(QMod.rows[r]) :
                QMod.rows[r][k].item = "impl" /\ QMod.rows[r][k].name = name
    IN  QMod.rows[r][k]

\* The body of an emitted row query function, codegen.rs:564-570, called with a
\* reference per parameter.
QueryFnCall(f) ==
    [row |-> f.ret.row,
     client |-> "client",
     params |-> [i \in 1..Len(f.body.params) |-> "&" \o f.body.params[i]],
     query |-> f.body.query,
     indexes |-> f.body.indexes,
     mapper |-> f.body.mapper]

\* A map() that builds the new builder with the identity column order.
MutMap(b, mapper) ==
    [row |-> b.row, client |-> b.client, params |-> b.params, query |-> b.query,
     indexes |-> [i \in 1..Len(b.indexes) |-> i - 1], mapper |-> mapper]

\* map(), codegen.rs:476-484
map(b, mapper) ==
    [row |-> b.row, client |-> b.client, params |-> b.params, query |-> b.query,
     indexes |-> b.indexes, mapper |-> mapper]

\* One call on the client, as logged.
Event(call, op, sql, stmt, params, ok) ==
    [call |-> call, op |-> op, sql |-> sql, stmt |-> stmt, params |-> params, ok |-> ok]

\* The statement a successful prepare returns: a new one each time.
NewStmt(log) == Cardinality({i \in 1..Len(log) : log[i].op = "prepare"}) + 1

\* client.prepare(sql), which succeeds or not.
ClientPrepare(sql, log, call, ok) ==
    [log |-> Append(log, Event(call, "prepare", sql, IF ok THEN NewStmt(log) ELSE 0,
                               <<>>, ok)),
     ok |-> ok,
     stmt |-> IF ok THEN NewStmt(log) ELSE 0,
     err |-> "prepare failed"]

\* A stmt() that hands back the statement of an earlier prepare of the same text.
MutStmt(b, log, call, ok) ==
    IF \E i \in 1..Len(log) : log[i].op = "prepare" /\ log[i].ok /\ log[i].sql = b.query
      THEN [log |-> log, ok |-> TRUE,
            stmt |-> log[CHOOSE i \in 1..Len(log) :
                            log[i].op = "prepare" /\ log[i].ok /\ log[i].sql = b.query].stmt,
            err |-> ""]
      ELSE ClientPrepare(b.query, log, call, ok)

\* stmt(), codegen.rs:490-492
stmt(b, log, call, ok) == ClientPrepare(b.query, log, call, ok)

\* The columns the database returns for a statement, in their physical order.
ColsOf(sql) ==
    qSpecs[CHOOSE i \in 1..Len(qSpecs) : "sql of " \o qSpecs[i].name = sql].cols

\* The id-th row the database returns for a statement: one value per column.
PhysRow(sql, id) ==
    [j \in 1..Len(ColsOf(sql)) |-> [col |-> ColsOf(sql)[j], row |-> id]]

\* An extractor that reads the columns in the stored field order.
MutExtractor(impl, row, indexes) ==
    [n \in {impl.get_fields[i].name : i \in 1..Len(impl.get_fields)} |->
        LET i == CHOOSE i \in 1..Len(impl.get_fields) : impl.get_fields[i].name = n
        IN  row[impl.get_fields[i].index + 1]]

\* extractor(), codegen.rs:463-465 and 486-488: `{f.name}: row.get(indexes[{index}])`
extractor(impl, row, indexes) ==
    [n \in {impl.get_fields[i].name : i \in 1..Len(impl.get_fields)} |->
        LET i == CHOOSE i \in 1..Len(impl.get_fields) : impl.get_fields[i].name = n
        IN  row[indexes[impl.get_fields[i].index + 1] + 1]]

\* (self.mapper)(Self::extractor(&row, self.indexes))
Mapped(b, id) ==
    [by |-> b.mapper,
     arg |-> extractor(RowQueryImpl(b.row \o "Query"), PhysRow(b.query, id), b.indexes)]

QRes(log, res, err, val) == [log |-> log, res |-> res, err |-> err, val |-> val]

\* A query call on a prepared statement.
ClientQuery(b, s, call, op, ok) ==
    Append(s.log, Event(call, op, "", s.stmt, b.params, ok))

\* one(), codegen.rs:494-498; ans is the database's answer
one(b, log, call, pok, ans) ==
    LET s == stmt(b, log, call, pok)
    IN  IF ~s.ok THEN QRes(s.log, "Err", s.err, <<>>)
        ELSE IF ans # "row"
          THEN QRes(ClientQuery(b, s, call, "query_one", FALSE), "Err", "query failed", <<>>)
          ELSE QRes(ClientQuery(b, s, call, "query_one", TRUE), "Ok", "", <<Mapped(b, 1)>>)

\* opt(), codegen.rs:504-511
opt(b, log, call, pok, ans) ==
    LET s == stmt(b, log, call, pok)
    IN  IF ~s.ok THEN QRes(s.log, "Err", s.err, <<>>)
        ELSE CASE ans = "err" ->
                    QRes(ClientQuery(b, s, call, "query_opt", FALSE), "Err",
                         "query failed", <<>>)
               [] ans = "none" ->
                    QRes(ClientQuery(b, s, call, "query_opt", TRUE), "Ok", "", <<>>)
               [] OTHER ->
                    QRes(ClientQuery(b, s, call, "query_opt", TRUE), "Ok", "",
                         <<Mapped(b, 1)>>)

\* The items a row stream yields: TRUE for a row, FALSE for an error.
StreamAnswers == {<<>>, <<TRUE>>, <<TRUE, TRUE>>, <<TRUE, FALSE>>}

\* stream(), codegen.rs:513-525; items is what the row stream yields
stream(b, log, call, pok, qok, items) ==
    LET s == stmt(b, log, call, pok)
    IN  IF ~s.ok THEN QRes(s.log, "Err", s.err, <<>>)
        ELSE IF ~qok
          THEN QRes(ClientQuery(b, s, call, "query_raw", FALSE), "Err", "query failed", <<>>)
          ELSE QRes(ClientQuery(b, s, call, "query_raw", TRUE), "Ok", "",
                    [i \in 1..Len(items) |->
                        IF items[i] THEN [ok |-> TRUE, v |-> Mapped(b, i)]
                        ELSE [ok |-> FALSE, v |-> None]])

\* vec(), codegen.rs:500-502: the stream collected, the first error ending it
vec(b, log, call, pok, qok, items) ==
    LET r == stream(b, log, call, pok, qok, items)
    IN  IF r.res # "Ok" THEN r
        ELSE IF \E i \in 1..Len(r.val) : ~r.val[i].ok
          THEN QRes(r.log, "Err", "row failed", <<>>)
          ELSE QRes(r.log, "Ok", "", [i \in 1..Len(r.val) |-> r.val[i].v])

\* The body of an emitted void query function, codegen.rs:582-583.
execute_fn(f, log, call, pok, eok) ==
    LET s == ClientPrepare(f.body.query, log, call, pok)
    IN  IF ~s.ok THEN QRes(s.log, "Err", s.err, <<>>)
        ELSE QRes(Append(s.log,
                         Event(call, "execute", "", s.stmt,
                               [i \in 1..Len(f.body.params) |-> "&" \o f.body.params[i]],
                               eok)),
                  IF eok THEN "Ok" ELSE "Err",
                  IF eok THEN "" ELSE "execute failed", <<>>)

\* The query files run: two queries sharing a row with permuted columns, a void
\* and a row query sharing parameters, and a lone row query.
QueryFiles ==
    { <<[name |-> "alpha", params |-> <<"id", "name">>, cols |-> <<"id", "name">>],
        [name |-> "beta", params |-> <<>>, cols |-> <<"name", "id">>]>>,
      <<[name |-> "alpha", params |-> <<"name", "id">>, cols |-> <<>>],
        [name |-> "beta", params |-> <<"id", "name">>, cols |-> <<"name", "id">>]>>,
      <<[name |-> "alpha", params |-> <<>>, cols |-> <<"id">>]>> }

QueryInit ==
    /\ \E sp \in QueryFiles : qSpecs = sp
    /\ registrar = DefaultRegistrar
    /\ modules = <<PrepareModule("users", qSpecs)>>
    /\ isAsync \in BOOLEAN
    /\ outputs = <<generate(registrar, modules, isAsync, <<"audit", "public">>)>>
    /\ qBld = None
    /\ qBuilt = None
    /\ qMaps = <<>>
    /\ qLog = <<>>
    /\ qRes = NoQRes
    /\ qCalls = 0

\* The result of call number c of `method`.
Done(c, method, r) ==
    [call |-> c, method |-> method, res |-> r.res, err |-> r.err, val |-> r.val]

\* A row query function is called: it returns a builder and calls nothing.
CallRowFn ==
    /\ qCalls < MaxCalls
    /\ \E i \in 1..Len(QMod.queries) :
          /\ QFn(i).body.kind = "build"
          /\ qBld' = QueryFnCall(QFn(i))
          /\ qBuilt' = QueryFnCall(QFn(i))
    /\ qMaps' = <<>>
    /\ qCalls' = qCalls + 1
    /\ UNCHANGED <<qSpecs, qLog, qRes, cliVars, genVars, codecVars>>

\* A void query function is called (and awaited).
CallVoidFn ==
    /\ qCalls < MaxCalls
    /\ \E i \in 1..Len(QMod.queries), pok, eok \in BOOLEAN :
          /\ QFn(i).body.kind = "execute"
          /\ LET r == execute_fn(QFn(i), qLog, qCalls + 1, pok, eok)
             IN  /\ qLog' = r.log
                 /\ qRes' = Done(qCalls + 1, "execute", r)
    /\ qCalls' = qCalls + 1
    /\ UNCHANGED <<qSpecs, qBld, qBuilt, qMaps, cliVars, genVars, codecVars>>

Map ==
    /\ qCalls < MaxCalls
    /\ qBld # None
    /\ \E m \in Mappers :
          /\ qBld' = map(qBld, m)
          /\ qMaps' = Append(qMaps, m)
    /\ qCalls' = qCalls + 1
    /\ UNCHANGED <<qSpecs, qBuilt, qLog, qRes, cliVars, genVars, codecVars>>

\* stmt() takes &self: the builder stays in hand.
Stmt ==
    /\ qCalls < MaxCalls
    /\ qBld # None
    /\ \E pok \in BOOLEAN :
          LET s == stmt(qBld, qLog, qCalls + 1, pok)
          IN  /\ qLog' = s.log
              /\ qRes' = Done(qCalls + 1, "stmt",
                              QRes(s.log, IF s.ok THEN "Ok" ELSE "Err",
                                   IF s.ok THEN "" ELSE s.err, <<>>))
    /\ qCalls' = qCalls + 1
    /\ UNCHANGED <<qSpecs, qBld, qBuilt, qMaps, cliVars, genVars, codecVars>>

\* one(), opt(), stream() and vec() take self: the builder is used up.
One ==
    /\ qCalls < MaxCalls
    /\ qBld # None
    /\ \E pok \in BOOLEAN, ans \in {"row", "err"} :
          LET r == one(qBld, qLog, qCalls + 1, pok, ans)
          IN  qLog' = r.log /\ qRes' = Done(qCalls + 1, "one", r)
    /\ qBld' = None
    /\ qCalls' = qCalls + 1
    /\ UNCHANGED <<qSpecs, qBuilt, qMaps, cliVars, genVars, codecVars>>

Opt ==
    /\ qCalls < MaxCalls
    /\ qBld # None
    /\ \E pok \in BOOLEAN, ans \in {"row", "none", "err"} :
          LET r == opt(qBld, qLog, qCalls + 1, pok, ans)
          IN  qLog' = r.log /\ qRes' = Done(qCalls + 1, "opt", r)
    /\ qBld' = None
    /\ qCalls' = qCalls + 1
    /\ UNCHANGED <<qSpecs, qBuilt, qMaps, cliVars, genVars, codecVars>>

Stream ==
    /\ qCalls < MaxCalls
    /\ qBld # None
    /\ \E pok, qok \in BOOLEAN, items \in StreamAnswers :
          LET r == stream(qBld, qLog, qCalls + 1, pok, qok, items)
          IN  qLog' = r.log /\ qRes' = Done(qCalls + 1, "stream", r)
    /\ qBld' = None
    /\ qCalls' = qCalls + 1
    /\ UNCHANGED <<qSpecs, qBuilt, qMaps, cliVars, genVars, codecVars>>

Vec ==
    /\ qCalls < MaxCalls
    /\ qBld # None
    /\ \E pok, qok \in BOOLEAN, items \in StreamAnswers :
          LET r == vec(qBld, qLog, qCalls + 1, pok, qok, items)
          IN  qLog' = r.log /\ qRes' = Done(qCalls + 1, "vec", r)
    /\ qBld' = None
    /\ qCalls' = qCalls + 1
    /\ UNCHANGED <<qSpecs, qBuilt, qMaps, cliVars, genVars, codecVars>>

QueryNext ==
    \/ CallRowFn
    \/ CallVoidFn
    \/ Map
    \/ Stmt
    \/ One
    \/ Opt
    \/ Stream
    \/ Vec

InitQuery == QueryInit /\ CliIdle /\ CodecIdle

SpecQuery == InitQuery /\ [][QueryNext]_vars

(***************************************************************************)
(* Claims about run() (SpecCli).                                           *)
(***************************************************************************)

\* generate_managed has been called and has failed
ManagedFailed ==
    \E i \in 1..Len(cliCalls) :
        cliCalls[i].fn = "generate_managed" /\ ~cliCalls[i].res.ok

\* C1: in managed mode, when generate_managed returns an error, container::cleanup
\* is invoked (after it) before run() returns, and run() then returns an error.
C1_TeardownBeforeError ==
    (cliPc = "returned" /\ ManagedFailed)
        => /\ \E i, j \in 1..Len(cliCalls) :
                /\ i < j
                /\ cliCalls[i].fn = "generate_managed"
                /\ cliCalls[j].fn = "cleanup"
                /\ cliCalls[j].arg.podman = cliArgs.podman
           /\ ~cliRet.ok

\* C1 witness: generate_managed failed, the teardown ran, run() returned.
C1_Witness ==
    /\ cliPc = "returned" /\ ManagedFailed
    /\ cliCalls[Len(cliCalls)].fn = "cleanup"
    /\ cliCalls[Len(cliCalls)].res.ok
    /\ ~cliRet.ok

\* C2 (as claimed): when generate_managed fails with E and the teardown fails too,
\* run() still returns E.
C2_PrimaryErrorKept ==
    (/\ cliPc = "returned" /\ ManagedFailed
     /\ cliCalls[Len(cliCalls)].fn = "cleanup"
     /\ ~cliCalls[Len(cliCalls)].res.ok)
        => cliRet = Err(cliErr)

(***************************************************************************)
(* Claims about generate() (SpecGen).                                      *)
(***************************************************************************)

\* C3 (as claimed): for a fixed registrar, module list and is_async, every run of
\* generate() emits the same text, whatever order the map of gen_type_modules
\* yields the schemas in.
C3_Deterministic ==
    \A i, j \in 1..Len(outputs) : outputs[i] = outputs[j]

\* the methods of the impl item called `name` among items
MethodNames(items, name) ==
    UNION { {items[i].methods[k].name : k \in 1..Len(items[i].methods)} :
            i \in {j \in 1..Len(items) : items[j].item = "impl" /\ items[j].name = name} }

\* C9: a query with row = None is emitted as a function returning Result<u64,
\* driver Error> that prepares and executes; a query with row = Some as a function,
\* not async, returning the {Row}Query of the row it references with N its parameter
\* count, and that builder exposes one, opt, vec and stream.
C9_QueryFnShape ==
    \A o \in 1..Len(outputs), m \in 1..Len(modules) :
        LET md == modules[m]
            em == outputs[o].queries[m]
        IN  /\ Len(em.queries) = Len(md.queries)
            /\ \A i \in 1..Len(md.queries) :
                 LET q == md.queries[i]
                     f == em.queries[i]
                 IN  /\ f.item = "fn" /\ f.name = q.name
                     /\ IF ~q.row.some
                          THEN /\ f.ret.shape = "Result<u64>"
                               /\ f.ret.backend = IF isAsync THEN "tokio_postgres"
                                                  ELSE "postgres"
                               /\ f.body.calls = <<"prepare", "execute">>
                               /\ f.body.query = q.sql
                          ELSE /\ ~f.fn_async
                               /\ f.ret.shape = "Query"
                               /\ f.ret.row = md.rows[q.row.idx + 1].name
                               /\ f.ret.n = Len(q.params)
                               /\ f.body.kind = "build"
                               /\ \E r \in 1..Len(em.rows) :
                                    {"one", "opt", "vec", "stream"} \subseteq
                                        MethodNames(em.rows[r], f.ret.row \o "Query")

\* C9 witness: a module with a void query and a row query has been emitted.
C9_Witness ==
    /\ Len(outputs) > 0 /\ Len(modules) = 1
    /\ \E i, j \in 1..Len(modules[1].queries) :
          /\ ~modules[1].queries[i].row.some
          /\ modules[1].queries[j].row.some
          /\ Len(modules[1].queries[j].params) = 2

\* C10: a parameter shape whose `queries` list has k entries is emitted as exactly
\* one struct with exactly k methods, one per sharing query, in declaration order;
\* the method for q is named q, calls q with `&self.<p>` for each of q's parameters
\* in q's order, and returns what q returns.
C10_ParamsStruct ==
    \A o \in 1..Len(outputs), m \in 1..Len(modules) :
        LET md == modules[m]
            em == outputs[o].queries[m]
        IN  /\ Len(em.params) = Len(md.params)
            /\ \A p \in 1..Len(md.params) :
                 LET ps == md.params[p]
                     items == em.params[p]
                     impls == {i \in 1..Len(items) : items[i].item = "impl"}
                 IN  /\ Cardinality({i \in 1..Len(items) : items[i].item = "struct"}) = 1
                     /\ Cardinality(impls) = 1
                     /\ \A i \in impls :
                          /\ Len(items[i].methods) = Len(ps.queries)
                          /\ \A k \in 1..Len(ps.queries) :
                               LET q == md.queries[ps.queries[k] + 1]
                                   mt == items[i].methods[k]
                               IN  /\ k > 1 => ps.queries[k - 1] < ps.queries[k]
                                   /\ mt.name = q.name
                                   /\ mt.call = q.name
                                   /\ mt.args = [a \in 1..Len(q.params) |->
                                                   "&self." \o q.params[a].name]
                                   /\ mt.ret = em.queries[ps.queries[k] + 1].ret

\* C10 witness: a params struct shared by two queries that list the parameters in
\* different orders, one void and one returning rows, has been emitted.
C10_Witness ==
    /\ Len(outputs) > 0 /\ Len(modules) = 1
    /\ \E p \in 1..Len(modules[1].params) :
          LET qs == modules[1].params[p].queries
          IN  /\ Len(qs) = 2
              /\ modules[1].queries[qs[1] + 1].params # modules[1].queries[qs[2] + 1].params
              /\ modules[1].queries[qs[1] + 1].row.some
              /\ ~modules[1].queries[qs[2] + 1].row.some

\* the emitted `types` items called `name` of the given sort, in run o
TypeItems(o, sort, name) ==
    UNION { {<<m, i>> : i \in {k \in 1..Len(outputs[o].types[m].items) :
                                 /\ outputs[o].types[m].items[k].item = sort
                                 /\ outputs[o].types[m].items[k].name = name}} :
            m \in 1..Len(outputs[o].types) }

\* C11 (as claimed): for a non-copy domain whose is_params is false the emitter
\* writes the owned newtype, {Name}Borrowed, {Name}Params and a ToSql impl on both
\* {Name}Borrowed and {Name}Params.
C11_DomainToSqlBoth ==
    \A o \in 1..Len(outputs), r \in 1..Len(registrar) :
        LET ty == registrar[r]
            n == ty.rust_ty_name
        IN  (PgType(ty.pg_ty).kind = "Domain" /\ ~ty.is_copy /\ ~ty.is_params)
                => /\ TypeItems(o, "struct", n) # {}
                   /\ TypeItems(o, "struct", n \o "Borrowed") # {}
                   /\ TypeItems(o, "struct", n \o "Params") # {}
                   /\ TypeItems(o, "impl_tosql", n \o "Borrowed") # {}
                   /\ TypeItems(o, "impl_tosql", n \o "Params") # {}

\* C12 (as claimed): every domain or composite whose is_params is false, copy or
\* not, gets a {Name}Params type with a ToSql impl; one whose is_params is true
\* gets no {Name}Params type.
C12_ParamsWhateverCopy ==
    \A o \in 1..Len(outputs), r \in 1..Len(registrar) :
        LET ty == registrar[r]
            n == ty.rust_ty_name
        IN  PgType(ty.pg_ty).kind \in {"Domain", "Composite"}
                => IF ~ty.is_params
                     THEN /\ TypeItems(o, "struct", n \o "Params") # {}
                          /\ TypeItems(o, "impl_tosql", n \o "Params") # {}
                     ELSE TypeItems(o, "struct", n \o "Params") = {}

\* C12 (amended): every domain or composite that is not copy and whose is_params is
\* false gets exactly one {Name}Params type, with the fields of the type under
\* the same names, and a ToSql impl for {Name}Params; a type that is copy or whose
\* is_params is true gets no {Name}Params type.
C12_ParamsNonCopy ==
    \A o \in 1..Len(outputs), r \in 1..Len(registrar) :
        LET ty == registrar[r]
            n == ty.rust_ty_name
            t == PgType(ty.pg_ty)
        IN  t.kind \in {"Domain", "Composite"}
                => IF ~ty.is_params /\ ~ty.is_copy
                     THEN /\ Cardinality(TypeItems(o, "struct", n \o "Params")) = 1
                          /\ Cardinality(TypeItems(o, "impl_tosql", n \o "Params")) = 1
                          /\ \A mi \in TypeItems(o, "struct", n \o "Params") :
                               LET fs == outputs[o].types[mi[1]].items[mi[2]].fields
                               IN  IF t.kind = "Domain" THEN Len(fs) = 1
                                   ELSE /\ Len(fs) = Len(t.fields)
                                        /\ \A i \in 1..Len(fs) :
                                             fs[i].name = t.fields[i].name
                     ELSE TypeItems(o, "struct", n \o "Params") = {}

\* C12 witness: one run has emitted a {Name}Params type for a composite and none
\* for a composite that is its own params view.
C12_Witness ==
    /\ Len(outputs) > 0
    /\ \E r, q \in 1..Len(registrar) :
          /\ PgType(registrar[r].pg_ty).kind = "Composite"
          /\ ~registrar[r].is_copy /\ ~registrar[r].is_params
          /\ TypeItems(1, "struct", registrar[r].rust_ty_name \o "Params") # {}
          /\ ~registrar[q].is_copy /\ registrar[q].is_params
          /\ PgType(registrar[q].pg_ty).kind \in {"Domain", "Composite"}

(***************************************************************************)
(* Claims about the generated query code at run time (SpecQuery).          *)
(***************************************************************************)

\* the last call was a one() that returned a row
OneReturned == qRes.method = "one" /\ qRes.res = "Ok"

\* C13: for every row query the emitted indexes array is the query's index map as
\* it stands, as long as the row has fields, and the extractor reads the i-th
\* stored field from column indexes[i]; two queries sharing a row return the same
\* {Row}Query type, and a row read through either gives every field the value of
\* the column of that name.
C13_IndexMap ==
    /\ \A i \in 1..Len(modules[1].queries) :
          LET q == modules[1].queries[i]
              row == modules[1].rows[q.row.idx + 1]
              impl == RowQueryImpl(row.name \o "Query")
          IN  q.row.some
                => /\ QFn(i).body.indexes = q.row.index
                   /\ Len(QFn(i).body.indexes) = Len(row.fields)
                   /\ QFn(i).ret.row = row.name
                   /\ Len(impl.get_fields) = Len(row.fields)
                   /\ \A k \in 1..Len(row.fields) :
                        impl.get_fields[k] = [name |-> row.fields[k].name, index |-> k - 1]
    /\ OneReturned
          => \A n \in DOMAIN qRes.val[1].arg :
                /\ qRes.val[1].arg[n].col = n
                /\ qRes.val[1].arg[n].row = 1

\* C13 witness: two queries share one row, with index maps [0,1] and [1,0], and
\* the one whose columns are permuted has returned a row.
C13_Witness ==
    /\ Len(modules[1].rows) = 1 /\ Len(modules[1].queries) = 2
    /\ QFn(1).body.indexes = <<0, 1>>
    /\ QFn(2).body.indexes = <<1, 0>>
    /\ OneReturned
    /\ qBuilt.query = QFn(2).body.query

\* the calls on the client made by call number c
EventsOf(c) == SelectSeq(qLog, LAMBDA e : e.call = c)

\* the client call each method issues on the statement
QueryOp(method) ==
    CASE method = "one" -> "query_one"
      [] method = "opt" -> "query_opt"
      [] method = "stream" -> "query_raw"
      [] method = "vec" -> "query_raw"
      [] method = "execute" -> "execute"

\* C14: every call of one, opt, stream, vec or of a void query function prepares
\* the statement once and then issues its query once, on the statement that very
\* prepare returned; no statement is used by two queries; when the prepare fails
\* no query is issued, no mapper is applied and the prepare's error is returned.
C14_PrepareEveryTime ==
    /\ qRes.method \in {"one", "opt", "stream", "vec", "execute"}
          => LET ev == EventsOf(qRes.call)
             IN  /\ Len(ev) \in {1, 2}
                 /\ ev[1].op = "prepare"
                 /\ IF ev[1].ok
                      THEN /\ Len(ev) = 2
                           /\ ev[2].op = QueryOp(qRes.method)
                           /\ ev[2].stmt = ev[1].stmt
                      ELSE /\ Len(ev) = 1
                           /\ qRes.res = "Err"
                           /\ qRes.err = "prepare failed"
                           /\ qRes.val = <<>>
    /\ \A i, j \in 1..Len(qLog) :
          (i # j /\ qLog[i].op # "prepare" /\ qLog[j].op # "prepare")
              => qLog[i].stmt # qLog[j].stmt
    /\ \A i \in 1..Len(qLog) :
          qLog[i].op # "prepare"
              => /\ i > 1
                 /\ qLog[i - 1].op = "prepare"
                 /\ qLog[i - 1].ok
                 /\ qLog[i - 1].call = qLog[i].call

\* C14 witness: the same SQL text was prepared twice with success, by stmt() and
\* then by an execution, and the query ran on the statement of the later prepare.
C14_Witness ==
    /\ \E i, j \in 1..Len(qLog) :
          /\ i < j
          /\ qLog[i].op = "prepare" /\ qLog[j].op = "prepare"
          /\ qLog[i].ok /\ qLog[j].ok
          /\ qLog[i].sql = qLog[j].sql
          /\ \E k \in 1..Len(qLog) : qLog[k].op = "query_one" /\ qLog[k].stmt = qLog[j].stmt
    /\ qRes.method \in {"one", "opt", "stream", "vec"}

\* the mapper a builder applies: the last one given, the conversion to the owned
\* row when none was
LastMapper ==
    IF qMaps = <<>> THEN qBuilt.row \o "::from" ELSE qMaps[Len(qMaps)]

\* C16: map() changes the mapper only: the builder in hand has the client, the
\* parameters, the SQL text and the indexes the query function gave it, and the
\* last mapper given; an execution prepares that SQL text, passes those parameters,
\* and applies the last mapper to the row extracted through those indexes.
C16_MapFrame ==
    /\ qBld # None
          => /\ qBld.client = qBuilt.client
             /\ qBld.params = qBuilt.params
             /\ qBld.query = qBuilt.query
             /\ qBld.indexes = qBuilt.indexes
             /\ qBld.row = qBuilt.row
             /\ qBld.mapper = LastMapper
    /\ (qRes.call = qCalls /\ qRes.method \in {"one", "opt", "stream", "vec"})
          => LET ev == EventsOf(qRes.call)
                 want(id) ==
                    [by |-> LastMapper,
                     arg |-> extractor(RowQueryImpl(qBuilt.row \o "Query"),
                                       PhysRow(qBuilt.query, id), qBuilt.indexes)]
             IN  /\ ev[1].sql = qBuilt.query
                 /\ Len(ev) = 2 => ev[2].params = qBuilt.params
                 /\ \A i \in 1..Len(qRes.val) :
                      IF qRes.method = "stream"
                        THEN qRes.val[i].ok => qRes.val[i].v = want(i)
                        ELSE qRes.val[i] = want(i)

\* C16 witness: two map() calls, then one() returned a row of a query whose
\* columns are permuted.
C16_Witness ==
    /\ Len(qMaps) = 2 /\ qMaps[1] # qMaps[2]
    /\ OneReturned /\ qRes.call = qCalls
    /\ qBuilt.indexes = <<1, 0>>

(***************************************************************************)
(* Claims about the generated codecs (SpecCodec).                          *)
(***************************************************************************)

CEnv == Env(registrar)

\* the registrar entry whose generated ToSql / FromSql is implemented for rty
DescrOfTy(rty) ==
    registrar[CHOOSE i \in 1..Len(registrar) :
                 rty \in {registrar[i].rust_ty_name \o "Borrowed",
                          registrar[i].rust_ty_name \o "Params"}]

KindOfTy(rty) == PgType(DescrOfTy(rty).pg_ty).kind

Encoded == cPc \in {"encoded", "decoded"}

\* The decode is the round trip of the encode: the same run-time type, into the
\* Borrowed variant of the type encoded.
RoundTrip ==
    /\ cPc = "decoded"
    /\ dTy = cTy
    /\ dRty = DescrOfTy(cRty).rust_ty_name \o "Borrowed"

\* C4 (as claimed): a composite written by the generated ToSql is read back by the
\* generated FromSql of the Borrowed variant, against the same run-time type, into
\* a struct whose every field equals the field encoded, with no byte left over.
C4_CompositeRoundTrip ==
    (RoundTrip /\ KindOfTy(cRty) = "Composite")
        => /\ dRes.res = "Ok"
           /\ dRes.val = cVal
           /\ dRes.rest = <<>>

\* C5 (as claimed): the payload written by the generated domain ToSql is read back
\* by the generated FromSql of {Name}Borrowed to the same inner value, with no
\* extra or missing header word.
C5_DomainRoundTrip ==
    (RoundTrip /\ KindOfTy(cRty) = "Domain")
        => /\ dRes.res = "Ok"
           /\ dRes.val = cVal
           /\ dRes.rest = <<>>

\* What the encoder of the i-th run-time field appends, taken on its own.
FieldEnc(i) ==
    LET f == PgType(cTy).fields[i]
    IN  to_sql(CEnv, FieldTy(CEnv, cRty, f.name), cVal[f.name], f.ty, <<>>)

FieldFails(i) ==
    \/ FieldEnc(i).res \in {"Err", "Panic"}
    \/ FieldEnc(i).res = "No" /\ ~WLe(ByteLen(FieldEnc(i).buf), W(I32Max))

\* OID word, length word (-1 for a null), value: fields i.. of the run-time type.
RECURSIVE WireFields(_)
WireFields(i) ==
    IF i > Len(PgType(cTy).fields) THEN <<>>
    ELSE Cat(Cat(Cat(I32ToBe(PgType(PgType(cTy).fields[i].ty).oid),
                     IF FieldEnc(i).res = "Yes" THEN I32ToBe(-1)
                     ELSE I32ToBe(WNat(ByteLen(FieldEnc(i).buf)))),
                 FieldEnc(i).buf),
             WireFields(i + 1))

\* C6: the generated composite to_sql writes the field count, then per field of the
\* run-time type, in its order, the OID, a length word holding the number of bytes
\* the field's encoder appended (-1 for a null) and those bytes, and answers
\* IsNull::No; a field of more than i32::MAX bytes fails the call with "value too
\* large to transmit".
C6_CompositeWire ==
    (Encoded /\ cAccepts /\ KindOfTy(cRty) = "Composite")
        => LET n == Len(PgType(cTy).fields)
               bad == {i \in 1..n : FieldFails(i)}
           IN  IF bad = {}
                 THEN /\ cRes.res = "No"
                      /\ cBuf = Cat(I32ToBe(n), WireFields(1))
                 ELSE LET i == CHOOSE i \in bad : \A j \in bad : i <= j
                      IN  /\ cRes.res = "Err"
                          /\ FieldEnc(i).res = "No"
                                => cRes.err = "value too large to transmit"

\* C6 witness: a composite written against a run-time type that lists the fields
\* in another order than the generated struct, with a two-byte street.
C6_Witness ==
    /\ Encoded /\ cAccepts /\ cRes.res = "No"
    /\ cTy = "addr_perm"
    /\ cVal["street"] = StrAb

\* C6, the overflow case is reached: a street of i32::MAX + 1 bytes.
C6_TooLargeReached ==
    /\ Encoded /\ cAccepts /\ cTy = "addr"
    /\ cVal["street"] = StrOver
    /\ cRes.err = "value too large to transmit"

\* C7: the generated ToSql::accepts of a composite answers true exactly when the
\* name matches, the kind is Composite, the field count is the one known at
\* generation time and every field has a known name whose params-view type accepts
\* the field's type; of a domain, exactly when the name matches, the kind is Domain
\* and the inner type's accepts approves the domain's inner type.
C7_Accepts ==
    Encoded =>
        LET t == PgType(cTy)
            d == DescrOfTy(cRty)
            g == PgType(d.pg_ty)
        IN  cAccepts <=>
              IF g.kind = "Composite"
                THEN /\ t.name = g.name
                     /\ t.kind = "Composite"
                     /\ Len(t.fields) = Len(g.fields)
                     /\ \A i \in 1..Len(t.fields) :
                          \E k \in 1..Len(g.fields) :
                             /\ g.fields[k].name = t.fields[i].name
                             /\ ToSqlAccepts(CEnv,
                                    borrowed_rust_ty(Get(registrar, g.fields[k].ty), TRUE),
                                    t.fields[i].ty)
                ELSE /\ t.name = g.name
                     /\ t.kind = "Domain"
                     /\ ToSqlAccepts(CEnv,
                            borrowed_rust_ty(Get(registrar, g.inner), TRUE), t.inner)

\* C7 witness: accepts approves a composite whose fields come in another order.
C7_Witness == Encoded /\ cAccepts /\ cTy = "acct_perm"

\* C8: to_sql is invoked for a value against a type only if the accepts of the
\* value's Rust type approves that type, nested field and inner types included.
C8_ToSqlOnlyIfAccepted ==
    \A c \in cCalls : ToSqlAccepts(CEnv, c[1], c[2])

\* C8 witness: an encode that went down to nested composite and domain fields.
C8_Witness ==
    /\ Encoded /\ cTy = "acct"
    /\ \E c \in cCalls : c[1] = "&[u8]"
    /\ \E c \in cCalls : c[1] = "&str"

\* C15 (as claimed): whatever order the run-time composite lists its fields in,
\* the generated FromSql gives each field of {Name}Borrowed the value of the wire
\* field of the same name, the inverse of what the generated ToSql wrote.
C15_FromSqlByName ==
    (/\ RoundTrip /\ KindOfTy(cRty) = "Composite"
     /\ cAccepts /\ dAccepts
     /\ \A i \in 1..Len(PgType(cTy).fields) :
           PgType(PgType(cTy).fields[i].ty).kind = "Simple")
        => /\ dRes.res = "Ok"
           /\ \A i \in 1..Len(PgType(cTy).fields) :
                dRes.val[PgType(cTy).fields[i].name] = cVal[PgType(cTy).fields[i].name]

\* C17 (as claimed): a generated to_sql or from_sql run against a type its own
\* accepts approved never panics (no unreachable!() branch, no index out of range).
C17_NoPanicWhenAccepted ==
    /\ (Encoded /\ cAccepts) => cRes.res # "Panic"
    /\ (cPc = "decoded" /\ dAccepts) => dRes.res # "Panic"

\* C18 (as claimed): neither the generated ToSql::accepts nor the generated
\* FromSql::accepts approves a run-time type of another schema than the user
\* type's, and the two agree on the run-time types they accept.
C18_SchemaChecked ==
    /\ (Encoded /\ PgType(cTy).schema # PgType(DescrOfTy(cRty).pg_ty).schema)
          => ~cAccepts
    /\ (cPc = "decoded" /\ PgType(dTy).schema # PgType(DescrOfTy(dRty).pg_ty).schema)
          => ~dAccepts
    /\ (cPc = "decoded" /\ dTy = cTy /\ DescrOfTy(dRty) = DescrOfTy(cRty))
          => (cAccepts <=> dAccepts)

====
